---- MODULE Spec2Model ----
(***************************************************************************)
(* Pagination engine of gophercloud (pagination.go): the three Page        *)
(* variants, the four Pager constructors and the EachPage loop.            *)
(*                                                                         *)
(* A Go string holding a URL is modelled as a record [path, query], query  *)
(* being the raw query string as a sequence of <<key, value>> pairs; the   *)
(* empty string is the record with path "" and no pair.  A Go (value,      *)
(* error) result is a record with an err field, "nil" for no error.        *)
(***************************************************************************)
EXTENDS Integers, Sequences, FiniteSets, TLC

\* ------------------------------------------------------------- bounds
\* Fetches one EachPage call may make before the model stops following it.
MaxFetches == 4

\* Parameters in the query of the URL a marker Pager is built for.
MaxPairs == 2

\* The calls of EachPage made on the one Pager value.
Calls == {1, 2}

\* ------------------------------------------------------------- errors
Nil == "nil"
ErrPageNotAvailable == "The requested Collection page does not exist."
ErrRequest == "perigee: request failed"
ErrRead == "ioutil: read failed"
ErrJSON == "json: invalid character"
ErrDecode == "mapstructure: unexpected type"
ErrFetch == "fetchNextPage failed"
ErrCount == "countPage failed"
ErrHandler == "handler failed"
ErrLastMark == "lastMark failed"
ErrNext == "NextPageURL failed"

\* ------------------------------------------------------------- URLs
EmptyURL == [path |-> "", query |-> <<>>]

URLOf(p) == [path |-> p, query |-> <<>>]

\* The remote's collection pages, as link targets and first pages.
Paths == {"https://x/1", "https://x/2", "https://x/3"}

\* Query keys in the byte order Values.Encode sorts them by.
KeyOrder == <<"limit", "marker", "zone">>

\* url.URL.Query(): the raw query parsed into key -> values, in order.
ValuesOf(query, k) ==
    LET hit(pair) == pair[1] = k
        sel == SelectSeq(query, hit)
    IN  [i \in 1..Len(sel) |-> sel[i][2]]

\* Values.Set(key, value) then Values.Encode(): the key's values replaced
\* by the one value, and the pairs written out sorted by key.
RECURSIVE EncodeFrom(_, _, _, _)
EncodeFrom(i, query, key, value) ==
    IF i > Len(KeyOrder) THEN <<>>
    ELSE LET k == KeyOrder[i]
             vals == IF k = key THEN <<value>> ELSE ValuesOf(query, k)
             pairs == [j \in 1..Len(vals) |-> <<k, vals[j]>>]
         IN  pairs \o EncodeFrom(i + 1, query, key, value)

\* SetAndEncode with Values.Add in place of Values.Set.
SetAndEncodeAdded(query, key, value) ==
    EncodeFrom(1, query \o << <<key, value>> >>, "", "")

SetAndEncode(query, key, value) == EncodeFrom(1, query, key, value)

\* ------------------------------------------------------------- JSON
NoFields == [f \in {} |-> 0]

JNull == [t |-> "null", fields |-> NoFields, str |-> EmptyURL]
JArray == [t |-> "array", fields |-> NoFields, str |-> EmptyURL]
JNumber == [t |-> "number", fields |-> NoFields, str |-> EmptyURL]
JString(s) == [t |-> "string", fields |-> NoFields, str |-> s]
JObject(fs) == [t |-> "object", fields |-> fs, str |-> EmptyURL]
\* A body kept as raw bytes ([]byte), for a response that is not JSON.
JBytes == [t |-> "bytes", fields |-> NoFields, str |-> EmptyURL]

WithLinks(links) == JObject("links" :> links)
WithNext(next) == WithLinks(JObject("next" :> next))

\* The documents the remote may answer with.
LinkTargets == {URLOf(p) : p \in Paths}

Documents ==
    {WithNext(JString(u)) : u \in LinkTargets}
        \cup {WithLinks(JObject(NoFields)), WithNext(JNull), JObject(NoFields),
              JArray, WithNext(JNumber)}
        \cup {WithNext(JString(EmptyURL)), JNull, WithLinks(JArray), WithLinks(JNull)}

\* ------------------------------------------------------------- HTTP
\* What one GET may bring back: perigee.Request failing (transport error or
\* a status outside OkCodes), or a response whose body read fails or
\* succeeds, with or without Content-Type application/json, holding bytes
\* that are a well-formed JSON text of document doc or are not.
Answer(reqOK, readOK, json, wellFormed, doc) ==
    [reqOK |-> reqOK, readOK |-> readOK, json |-> json,
     wellFormed |-> wellFormed, doc |-> doc]

FailedAnswers ==
    {Answer(FALSE, TRUE, TRUE, TRUE, JNull), Answer(TRUE, FALSE, TRUE, TRUE, JNull),
     Answer(TRUE, TRUE, TRUE, FALSE, JNull)}

LinkedAnswers ==
    FailedAnswers \cup {Answer(TRUE, TRUE, TRUE, TRUE, d) : d \in Documents}
        \cup {Answer(TRUE, TRUE, FALSE, TRUE, WithNext(JString(URLOf("https://x/2"))))}

\* Single and marker pages never read the body themselves: two documents.
PlainAnswers ==
    FailedAnswers \cup {Answer(TRUE, TRUE, j, TRUE, JObject(NoFields)) : j \in BOOLEAN}

\* json.Unmarshal(rawBody, &parsedBody)
Unmarshal(answer) ==
    IF answer.wellFormed THEN [value |-> answer.doc, err |-> Nil]
    ELSE [value |-> JNull, err |-> ErrJSON]

NoSnapshot == [URL |-> EmptyURL, Body |-> JNull]

\* Returning with the body closed only when there is a result to return.
ReturningOpenOnError(snap, err, ops) ==
    [snap |-> snap, err |-> err, ops |-> IF err = Nil THEN Append(ops, "Close") ELSE ops]

\* A return of RememberHTTPResponse: defer resp.Body.Close() runs now, after
\* the operations made on the body so far.
Returning(snap, err, ops) ==
    [snap |-> snap, err |-> err, ops |-> Append(ops, "Close")]

\* RememberHTTPResponse(resp), resp being the response to a GET of url;
\* ops are the operations made on resp.Body, in order.
RememberHTTPResponse(answer, url) ==
    LET read == <<"ReadAll">>
    IN  IF ~answer.readOK THEN Returning(NoSnapshot, ErrRead, read)
        ELSE IF answer.json
             THEN LET parsed == Unmarshal(answer)
                  IN  IF parsed.err # Nil THEN Returning(NoSnapshot, parsed.err, read)
                      ELSE Returning([URL |-> url, Body |-> parsed.value], Nil, read)
             ELSE Returning([URL |-> url, Body |-> JBytes], Nil, read)

\* request(client, url) followed by RememberHTTPResponse, as each
\* constructor's fetch closure chains them.
RequestAndRemember(answer, url) ==
    IF ~answer.reqOK THEN [snap |-> NoSnapshot, err |-> ErrRequest, ops |-> <<>>]
    ELSE RememberHTTPResponse(answer, url)

\* ------------------------------------------------------------- pages
PageOf(kind, snap) == [kind |-> kind, URL |-> snap.URL, Body |-> snap.Body]

NoPage == PageOf("none", NoSnapshot)

\* SingleNextPageURL answering with the page's own URL.
SingleNextPageURLSelf(page) == [url |-> page.URL, err |-> Nil]

\* SinglePage.NextPageURL
SingleNextPageURL(page) == [url |-> EmptyURL, err |-> Nil]

\* DecodeNext refusing a null next.
DecodeNextNullRefused(links) ==
    IF links.t = "null" THEN [set |-> FALSE, s |-> EmptyURL, err |-> Nil]
    ELSE IF links.t # "object" THEN [set |-> FALSE, s |-> EmptyURL, err |-> ErrDecode]
    ELSE IF "next" \notin DOMAIN links.fields
         THEN [set |-> FALSE, s |-> EmptyURL, err |-> Nil]
    ELSE LET next == links.fields["next"]
         IN  IF next.t = "string" THEN [set |-> TRUE, s |-> next.str, err |-> Nil]
             ELSE [set |-> FALSE, s |-> EmptyURL, err |-> ErrDecode]

\* mapstructure.Decode(body, &r) for r of shape {links: {next: *string}}:
\* nil input and missing or null fields leave the zero value, a value of
\* the wrong kind is an error.
DecodeNext(links) ==
    IF links.t = "null" THEN [set |-> FALSE, s |-> EmptyURL, err |-> Nil]
    ELSE IF links.t # "object" THEN [set |-> FALSE, s |-> EmptyURL, err |-> ErrDecode]
    ELSE IF "next" \notin DOMAIN links.fields
         THEN [set |-> FALSE, s |-> EmptyURL, err |-> Nil]
    ELSE LET next == links.fields["next"]
         IN  IF next.t = "null" THEN [set |-> FALSE, s |-> EmptyURL, err |-> Nil]
             ELSE IF next.t = "string" THEN [set |-> TRUE, s |-> next.str, err |-> Nil]
             ELSE [set |-> FALSE, s |-> EmptyURL, err |-> ErrDecode]

\* Decode taking any body that is not an object for one without links.
DecodeAnyBody(body) ==
    IF body.t # "object" THEN [set |-> FALSE, s |-> EmptyURL, err |-> Nil]
    ELSE IF "links" \notin DOMAIN body.fields
         THEN [set |-> FALSE, s |-> EmptyURL, err |-> Nil]
    ELSE DecodeNext(body.fields["links"])

Decode(body) ==
    IF body.t = "null" THEN [set |-> FALSE, s |-> EmptyURL, err |-> Nil]
    ELSE IF body.t # "object" THEN [set |-> FALSE, s |-> EmptyURL, err |-> ErrDecode]
    ELSE IF "links" \notin DOMAIN body.fields
         THEN [set |-> FALSE, s |-> EmptyURL, err |-> Nil]
    ELSE DecodeNext(body.fields["links"])

\* LinkedNextPageURL with the nil test inverted.
LinkedNextPageURLInverted(page) ==
    LET r == Decode(page.Body)
    IN  IF r.err # Nil THEN [url |-> EmptyURL, err |-> r.err]
        ELSE IF r.set THEN [url |-> EmptyURL, err |-> Nil]
        ELSE [url |-> r.s, err |-> Nil]

\* LinkedPage.NextPageURL
LinkedNextPageURL(page) ==
    LET r == Decode(page.Body)
    IN  IF r.err # Nil THEN [url |-> EmptyURL, err |-> r.err]
        ELSE IF ~r.set THEN [url |-> EmptyURL, err |-> Nil]
        ELSE [url |-> r.s, err |-> Nil]

\* MarkerNextPageURL taking an empty mark for the end of the collection.
MarkerNextPageURLEmptyMarkEnds(page, marked) ==
    IF marked.err # Nil THEN [url |-> EmptyURL, err |-> marked.err]
    ELSE IF marked.mark = "" THEN [url |-> EmptyURL, err |-> Nil]
    ELSE [url |-> [path |-> page.URL.path,
                   query |-> SetAndEncode(page.URL.query, "marker", marked.mark)],
          err |-> Nil]

\* MarkerPageAfter writing the new query into the page's own URL.
MarkerPageAfterInPlace(page, marked) ==
    IF marked.err # Nil THEN page
    ELSE [page EXCEPT !.URL.query = SetAndEncode(page.URL.query, "marker", marked.mark)]

\* The page after its NextPageURL has run: the method has a value receiver
\* and rewrites currentURL, its copy of current.URL.
MarkerPageAfter(page, marked) == page

\* MarkerPage.NextPageURL, lastMark(current) having returned marked.
MarkerNextPageURL(page, marked) ==
    IF marked.err # Nil THEN [url |-> EmptyURL, err |-> marked.err]
    ELSE [url |-> [path |-> page.URL.path,
                   query |-> SetAndEncode(page.URL.query, "marker", marked.mark)],
          err |-> Nil]

\* ------------------------------------------------------------- collaborators
\* What the caller's functions may return.
CountResults == {[n |-> n, err |-> e] : n \in {0, 1}, e \in {Nil, ErrCount}}
HandlerResults == {[ok |-> b, err |-> e] : b \in BOOLEAN, e \in {Nil, ErrHandler}}
MarkResults ==
    {[mark |-> "", err |-> Nil], [mark |-> "item-42", err |-> Nil],
     [mark |-> "", err |-> ErrLastMark]}
NextResults ==
    {[url |-> EmptyURL, err |-> Nil], [url |-> EmptyURL, err |-> ErrNext]}
        \cup {[url |-> u, err |-> Nil] : u \in LinkTargets}
FetchResults == {[ok |-> TRUE, err |-> Nil], [ok |-> FALSE, err |-> ErrFetch]}

\* The URLs the constructors are given.
FirstURL == URLOf("https://x/1")
MarkerURLs ==
    {[path |-> "https://x/1", query |-> << <<"limit", "10">> >>],
     [path |-> "https://x/1", query |-> << <<"marker", "old">>, <<"limit", "10">> >>]}

\* ------------------------------------------------------------- state
VARIABLES
    pager,        \* the Pager value: which constructor built it, its initialURL
    consumed,     \* the flag NewSinglePager's fetch closure captures
    pc,           \* per call of EachPage: where it stands
    currentURL,   \* per call: EachPage's local currentURL
    currentPage,  \* per call: EachPage's local currentPage
    ret,          \* per call: the error EachPage returned
    log,          \* per call: the collaborator invocations made, with results
    remote,       \* URL -> the answer the remote gave to a GET of it
    counted,      \* page URL -> what countPage returned for that page
    handled,      \* page URL -> what the handler returned for that page
    marked,       \* page URL -> what lastMark returned for that page
    nexts,        \* page URL -> what a caller-defined page's NextPageURL returned
    bodies        \* per call: what was done to the body of each response it got

vars ==
    <<pager, consumed, pc, currentURL, currentPage, ret, log, remote, counted,
      handled, marked, nexts, bodies>>

world == <<remote, counted, handled, marked, nexts>>

Nothing == [u \in {} |-> u]

\* The remote and the caller's functions answer the same way every time
\* they are asked the same thing.
Agrees(memo, key, value) == key \in DOMAIN memo => memo[key] = value
Learn(memo, key, value) == IF key \in DOMAIN memo THEN memo ELSE memo @@ (key :> value)

Event(op, url) ==
    [op |-> op, url |-> url, n |-> 0, ok |-> FALSE, next |-> EmptyURL,
     did |-> FALSE, err |-> Nil]

FetchEvent(url, did, err) == [Event("fetch", url) EXCEPT !.did = did, !.err = err]
CountEvent(page, r) == [Event("count", page.URL) EXCEPT !.n = r.n, !.err = r.err]
HandlerEvent(page, r) == [Event("handler", page.URL) EXCEPT !.ok = r.ok, !.err = r.err]
NextEvent(page, r) == [Event("next", page.URL) EXCEPT !.next = r.url, !.err = r.err]

Logged(c, event) == log' = [log EXCEPT ![c] = Append(@, event)]

Ops(c, op) == LET is(e) == e.op = op IN SelectSeq(log[c], is)

Fetches(c) == Len(Ops(c, "fetch"))

\* return err
Return(c, err) ==
    /\ pc' = [pc EXCEPT ![c] = "done"]
    /\ ret' = [ret EXCEPT ![c] = err]

Goto(c, label) ==
    /\ pc' = [pc EXCEPT ![c] = label]
    /\ UNCHANGED ret

NoPager == [kind |-> "none", initialURL |-> EmptyURL, onlyURL |-> EmptyURL]

\* No call of EachPage made yet.
NotCalled ==
    /\ consumed = FALSE
    /\ pc = [c \in Calls |-> "idle"]
    /\ currentURL = [c \in Calls |-> EmptyURL]
    /\ currentPage = [c \in Calls |-> NoPage]
    /\ ret = [c \in Calls |-> Nil]
    /\ log = [c \in Calls |-> <<>>]
    /\ bodies = [c \in Calls |-> <<>>]

Init ==
    /\ pager = NoPager
    /\ NotCalled
    /\ remote = Nothing
    /\ counted = Nothing
    /\ handled = Nothing
    /\ marked = Nothing
    /\ nexts = Nothing

\* ------------------------------------------------------------- constructors
\* return Pager{initialURL: ..., fetchNextPage: ..., countPage: ...}
Constructed(kind, initialURL, onlyURL) ==
    /\ pager' = [kind |-> kind, initialURL |-> initialURL, onlyURL |-> onlyURL]
    /\ UNCHANGED <<pc, currentURL, currentPage, ret, log, world, bodies>>

NewPager ==
    /\ pager = NoPager
    /\ Constructed("custom", FirstURL, EmptyURL)
    /\ UNCHANGED consumed

\* consumed := false
NewSinglePager ==
    /\ pager = NoPager
    /\ consumed' = FALSE
    /\ Constructed("single", EmptyURL, FirstURL)

NewLinkedPager ==
    /\ pager = NoPager
    /\ Constructed("linked", FirstURL, EmptyURL)
    /\ UNCHANGED consumed

NewMarkerPager ==
    /\ pager = NoPager
    /\ \E u \in MarkerURLs : Constructed("marker", u, EmptyURL)
    /\ UNCHANGED consumed

\* ------------------------------------------------------------- EachPage
\* currentURL := p.initialURL
Enter(c) ==
    /\ pager # NoPager
    /\ pc[c] = "idle"
    /\ pc' = [pc EXCEPT ![c] = "fetch"]
    /\ currentURL' = [currentURL EXCEPT ![c] = pager.initialURL]
    /\ UNCHANGED <<pager, consumed, currentPage, ret, log, world, bodies>>

\* p.EachPage(handler), called when no other call is in progress.
EachPage(c) ==
    /\ \A d \in Calls \ {c} : pc[d] \in {"idle", "done"}
    /\ Enter(c)

\* go p.EachPage(handler)
GoEachPage(c) == Enter(c)

\* Fetched going on to count the page whatever err is.
FetchedErrorIgnored(c, did, page, err) ==
    /\ Logged(c, FetchEvent(currentURL[c], did, err))
    /\ Goto(c, "count")
    /\ currentPage' = [currentPage EXCEPT ![c] = page]
    /\ UNCHANGED <<pager, currentURL>>

\* currentPage, err := p.fetchNextPage(currentURL); if err != nil { return err }
Fetched(c, did, page, err) ==
    /\ Logged(c, FetchEvent(currentURL[c], did, err))
    /\ IF err # Nil
       THEN Return(c, err) /\ UNCHANGED currentPage
       ELSE Goto(c, "count") /\ currentPage' = [currentPage EXCEPT ![c] = page]
    /\ UNCHANGED <<pager, currentURL>>

AtFetch(c, kind) ==
    /\ pc[c] = "fetch"
    /\ pager.kind = kind
    /\ Fetches(c) < MaxFetches

\* A GET of url by a fetch closure, wrapped as a page of the given kind.
Get(c, kind, url, answers) ==
    \E answer \in answers :
        /\ Agrees(remote, url, answer)
        /\ remote' = Learn(remote, url, answer)
        /\ LET r == RequestAndRemember(answer, url)
           IN  /\ Fetched(c, TRUE, PageOf(kind, r.snap), r.err)
               /\ bodies' = [bodies EXCEPT ![c] =
                                IF answer.reqOK THEN Append(@, r.ops) ELSE @]

\* The fetch function handed to NewPager: any function of the URL.
CustomFetch(c) ==
    /\ AtFetch(c, "custom")
    /\ \E r \in FetchResults :
        /\ Agrees(remote, currentURL[c], r)
        /\ remote' = Learn(remote, currentURL[c], r)
        /\ Fetched(c, r.ok, PageOf("custom", [URL |-> currentURL[c], Body |-> JNull]), r.err)
    /\ UNCHANGED <<consumed, counted, handled, marked, nexts, bodies>>

\* SingleFetch testing and setting the flag in one step.
SingleFetchAtomic(c) ==
    /\ AtFetch(c, "single")
    /\ IF consumed
       THEN Fetched(c, FALSE, NoPage, ErrPageNotAvailable) /\ UNCHANGED consumed
       ELSE /\ Goto(c, "consume")
            /\ consumed' = TRUE
            /\ UNCHANGED <<pager, currentURL, currentPage, log>>
    /\ UNCHANGED <<world, bodies>>

\* NewSinglePager's closure: if !consumed
SingleFetch(c) ==
    /\ AtFetch(c, "single")
    /\ IF consumed
       THEN Fetched(c, FALSE, NoPage, ErrPageNotAvailable)
       ELSE /\ Goto(c, "consume")
            /\ UNCHANGED <<pager, currentURL, currentPage, log>>
    /\ UNCHANGED <<consumed, world, bodies>>

\* SingleConsume leaving the flag as it is.
SingleConsumeForgotten(c) ==
    /\ pc[c] = "consume"
    /\ Goto(c, "request")
    /\ UNCHANGED <<pager, consumed, currentURL, currentPage, log, world, bodies>>

\* consumed = true
SingleConsume(c) ==
    /\ pc[c] = "consume"
    /\ consumed' = TRUE
    /\ Goto(c, "request")
    /\ UNCHANGED <<pager, currentURL, currentPage, log, world, bodies>>

\* request(client, onlyURL), RememberHTTPResponse, SinglePage(cp)
SingleRequest(c) ==
    /\ pc[c] = "request"
    /\ Get(c, "single", pager.onlyURL, PlainAnswers)
    /\ UNCHANGED <<consumed, counted, handled, marked, nexts>>

\* NewLinkedPager's closure
LinkedFetch(c) ==
    /\ AtFetch(c, "linked")
    /\ Get(c, "linked", currentURL[c], LinkedAnswers)
    /\ UNCHANGED <<consumed, counted, handled, marked, nexts>>

\* NewMarkerPager's closure
MarkerFetch(c) ==
    /\ AtFetch(c, "marker")
    /\ Get(c, "marker", currentURL[c], PlainAnswers)
    /\ UNCHANGED <<consumed, counted, handled, marked, nexts>>

\* Counted without the count == 0 test.
CountedEmptyHandled(c, r) ==
    /\ Logged(c, CountEvent(currentPage[c], r))
    /\ IF r.err # Nil THEN Return(c, r.err)
       ELSE Goto(c, "handler")

\* Counted going straight on to NextPageURL.
CountedHandlerSkipped(c, r) ==
    /\ Logged(c, CountEvent(currentPage[c], r))
    /\ IF r.err # Nil THEN Return(c, r.err)
       ELSE IF r.n = 0 THEN Return(c, Nil)
       ELSE Goto(c, "next")

\* count, err := p.countPage(currentPage); if err != nil { return err };
\* if count == 0 { return nil }
Counted(c, r) ==
    /\ Logged(c, CountEvent(currentPage[c], r))
    /\ IF r.err # Nil THEN Return(c, r.err)
       ELSE IF r.n = 0 THEN Return(c, Nil)
       ELSE Goto(c, "handler")

CountPage(c) ==
    /\ pc[c] = "count"
    /\ \E r \in CountResults :
        /\ Agrees(counted, currentPage[c].URL, r)
        /\ counted' = Learn(counted, currentPage[c].URL, r)
        /\ Counted(c, r)
    /\ UNCHANGED <<pager, consumed, currentURL, currentPage, remote, handled, marked, nexts, bodies>>

\* Handled without the !ok test.
HandledStopIgnored(c, r) ==
    /\ Logged(c, HandlerEvent(currentPage[c], r))
    /\ IF r.err # Nil THEN Return(c, r.err)
       ELSE Goto(c, "next")

\* Handled with the stop reported as an error.
HandledStopIsError(c, r) ==
    /\ Logged(c, HandlerEvent(currentPage[c], r))
    /\ IF r.err # Nil THEN Return(c, r.err)
       ELSE IF ~r.ok THEN Return(c, ErrPageNotAvailable)
       ELSE Goto(c, "next")

\* ok, err := handler(currentPage); if err != nil { return err };
\* if !ok { return nil }
Handled(c, r) ==
    /\ Logged(c, HandlerEvent(currentPage[c], r))
    /\ IF r.err # Nil THEN Return(c, r.err)
       ELSE IF ~r.ok THEN Return(c, Nil)
       ELSE Goto(c, "next")

Handler(c) ==
    /\ pc[c] = "handler"
    /\ \E r \in HandlerResults :
        /\ Agrees(handled, currentPage[c].URL, r)
        /\ handled' = Learn(handled, currentPage[c].URL, r)
        /\ Handled(c, r)
    /\ UNCHANGED <<pager, consumed, currentURL, currentPage, remote, counted, marked, nexts, bodies>>

\* Advanced with a NextPageURL error taken for the end of the collection.
AdvancedErrorSwallowed(c, r) ==
    /\ Logged(c, NextEvent(currentPage[c], r))
    /\ currentURL' = [currentURL EXCEPT ![c] = r.url]
    /\ IF r.err # Nil \/ r.url = EmptyURL THEN Return(c, Nil)
       ELSE Goto(c, "fetch")

\* Advanced with currentURL kept in the Pager instead of in the call.
AdvancedShared(c, r) ==
    /\ Logged(c, NextEvent(currentPage[c], r))
    /\ currentURL' = [d \in Calls |-> r.url]
    /\ IF r.err # Nil THEN Return(c, r.err)
       ELSE IF r.url = EmptyURL THEN Return(c, Nil)
       ELSE Goto(c, "fetch")

\* Advanced going on with the URL it had instead of the one returned.
AdvancedURLKept(c, r) ==
    /\ Logged(c, NextEvent(currentPage[c], r))
    /\ UNCHANGED currentURL
    /\ IF r.err # Nil THEN Return(c, r.err)
       ELSE IF r.url = EmptyURL THEN Return(c, Nil)
       ELSE Goto(c, "fetch")

\* Advanced returning nil when the next URL is one the call fetched before.
AdvancedCycleChecked(c, r) ==
    /\ Logged(c, NextEvent(currentPage[c], r))
    /\ currentURL' = [currentURL EXCEPT ![c] = r.url]
    /\ IF r.err # Nil THEN Return(c, r.err)
       ELSE IF r.url = EmptyURL THEN Return(c, Nil)
       ELSE IF \E i \in 1..Len(log[c]) : log[c][i].op = "fetch" /\ log[c][i].url = r.url
            THEN Return(c, Nil)
       ELSE Goto(c, "fetch")

\* currentURL, err = currentPage.NextPageURL(); if err != nil { return err };
\* if currentURL == "" { return nil }
Advanced(c, r) ==
    /\ Logged(c, NextEvent(currentPage[c], r))
    /\ currentURL' = [currentURL EXCEPT ![c] = r.url]
    /\ IF r.err # Nil THEN Return(c, r.err)
       ELSE IF r.url = EmptyURL THEN Return(c, Nil)
       ELSE Goto(c, "fetch")

AtNext(c, kind) ==
    /\ pc[c] = "next"
    /\ currentPage[c].kind = kind

SinglePageNext(c) ==
    /\ AtNext(c, "single")
    /\ Advanced(c, SingleNextPageURL(currentPage[c]))
    /\ UNCHANGED <<pager, consumed, currentPage, world, bodies>>

LinkedPageNext(c) ==
    /\ AtNext(c, "linked")
    /\ Advanced(c, LinkedNextPageURL(currentPage[c]))
    /\ UNCHANGED <<pager, consumed, currentPage, world, bodies>>

MarkerPageNext(c) ==
    /\ AtNext(c, "marker")
    /\ \E m \in MarkResults :
        /\ Agrees(marked, currentPage[c].URL, m)
        /\ marked' = Learn(marked, currentPage[c].URL, m)
        /\ Advanced(c, MarkerNextPageURL(currentPage[c], m))
        /\ currentPage' = [currentPage EXCEPT ![c] = MarkerPageAfter(@, m)]
    /\ UNCHANGED <<pager, consumed, remote, counted, handled, nexts, bodies>>

\* The NextPageURL of a page type defined by NewPager's caller.
CustomPageNext(c) ==
    /\ AtNext(c, "custom")
    /\ \E r \in NextResults :
        /\ Agrees(nexts, currentPage[c].URL, r)
        /\ nexts' = Learn(nexts, currentPage[c].URL, r)
        /\ Advanced(c, r)
    /\ UNCHANGED <<pager, consumed, currentPage, remote, counted, handled, marked, bodies>>

Step(c) ==
    \/ CustomFetch(c)
    \/ SingleFetch(c)
    \/ SingleConsume(c)
    \/ SingleRequest(c)
    \/ LinkedFetch(c)
    \/ MarkerFetch(c)
    \/ CountPage(c)
    \/ Handler(c)
    \/ SinglePageNext(c)
    \/ LinkedPageNext(c)
    \/ MarkerPageNext(c)
    \/ CustomPageNext(c)

Construct ==
    \/ NewPager
    \/ NewSinglePager
    \/ NewLinkedPager
    \/ NewMarkerPager

\* One caller: the calls of EachPage follow one another.
Next ==
    \/ Construct
    \/ \E c \in Calls : EachPage(c)
    \/ \E c \in Calls : Step(c)

Spec == Init /\ [][Next]_vars

\* Two goroutines sharing the Pager value: the calls interleave.
ConcNext ==
    \/ Construct
    \/ \E c \in Calls : GoEachPage(c)
    \/ \E c \in Calls : Step(c)

ConcSpec == Init /\ [][ConcNext]_vars

\* A Pager built by NewLinkedPager over a remote whose three pages are
\* settled beforehand, with a countPage that finds every page non-empty and
\* a handler that accepts every page.
LinkedInit ==
    /\ pager = [kind |-> "linked", initialURL |-> FirstURL, onlyURL |-> EmptyURL]
    /\ NotCalled
    /\ remote \in [LinkTargets -> LinkedAnswers]
    /\ counted = [u \in LinkTargets |-> [n |-> 1, err |-> Nil]]
    /\ handled = [u \in LinkTargets |-> [ok |-> TRUE, err |-> Nil]]
    /\ marked = Nothing
    /\ nexts = Nothing

LinkedNext ==
    \E c \in Calls :
        \/ EachPage(c)
        \/ LinkedFetch(c)
        \/ CountPage(c)
        \/ Handler(c)
        \/ LinkedPageNext(c)

LinkedSpec == LinkedInit /\ [][LinkedNext]_vars

\* A Pager built by NewMarkerPager for a URL with any query of at most
\* MaxPairs parameters.
QueryPairs == {<<"limit", "10">>, <<"limit", "20">>, <<"marker", "old">>, <<"zone", "a">>}

Queries == UNION {[1..n -> QueryPairs] : n \in 0..MaxPairs}

MarkerInit ==
    /\ \E p \in {"", "https://api.example.com/items"} : \E q \in Queries :
        pager = [kind |-> "marker", initialURL |-> [path |-> p, query |-> q],
                 onlyURL |-> EmptyURL]
    /\ NotCalled
    /\ remote = Nothing
    /\ counted = Nothing
    /\ handled = Nothing
    /\ marked = Nothing
    /\ nexts = Nothing

MarkerNext ==
    \E c \in Calls :
        \/ EachPage(c)
        \/ MarkerFetch(c)
        \/ CountPage(c)
        \/ Handler(c)
        \/ MarkerPageNext(c)

MarkerSpec == MarkerInit /\ [][MarkerNext]_vars

\* ------------------------------------------------------------- properties
Done(c) == pc[c] = "done"

Last(c) == log[c][Len(log[c])]

\* The page the call holds has a successor to go to.
HasNextPage(c) ==
    /\ currentPage[c].kind = "linked"
    /\ LinkedNextPageURL(currentPage[c]).err = Nil
    /\ LinkedNextPageURL(currentPage[c]).url # EmptyURL

IsEmptyCount(e) == e.op = "count" /\ e.err = Nil /\ e.n = 0
IsStop(e) == e.op = "handler" /\ e.err = Nil /\ ~e.ok
IsExhausted(e) == e.op = "next" /\ e.err = Nil /\ e.next = EmptyURL
IsFetchError(e) == e.op = "fetch" /\ e.err # Nil
IsOtherError(e) == e.op \in {"count", "handler", "next"} /\ e.err # Nil

\* C1: when countPage returns (0, nil) for a page, that is the call's last
\* collaborator invocation (no handler, no NextPageURL, no further fetch)
\* and EachPage has returned nil.
C1_EmptyPageEndsTraversal ==
    \A c \in Calls : \A i \in 1..Len(log[c]) :
        IsEmptyCount(log[c][i]) => i = Len(log[c]) /\ Done(c) /\ ret[c] = Nil

C1_Witness ==
    \E c \in Calls : Len(log[c]) > 0 /\ IsEmptyCount(Last(c)) /\ HasNextPage(c)

\* C2: when the handler returns (false, nil), that is the call's last
\* collaborator invocation (no NextPageURL, no further fetch, no further
\* handler) and EachPage has returned nil, whether or not a next page exists.
C2_StopEndsTraversal ==
    \A c \in Calls : \A i \in 1..Len(log[c]) :
        IsStop(log[c][i]) => i = Len(log[c]) /\ Done(c) /\ ret[c] = Nil

C2_Witness ==
    \E c \in Calls : Len(log[c]) > 0 /\ IsStop(Last(c)) /\ HasNextPage(c)

IsPrefix(s, t) == Len(s) <= Len(t) /\ \A i \in 1..Len(s) : s[i] = t[i]

\* C3: an error returned by a collaborator is the call's last collaborator
\* invocation and is, unchanged, what EachPage returns; and the invocations
\* a call has made are never taken back.
C3_FailFast ==
    /\ [](\A c \in Calls : \A i \in 1..Len(log[c]) :
            log[c][i].err # Nil =>
                i = Len(log[c]) /\ Done(c) /\ ret[c] = log[c][i].err)
    /\ [][\A c \in Calls : IsPrefix(log[c], log'[c])]_vars

C3_Witness ==
    \E c \in Calls :
        /\ Len(log[c]) > 4
        /\ Last(c).op = "next"
        /\ Last(c).err = ErrDecode
        /\ ret[c] = ErrDecode

Causes(e) ==
    {k \in 1..5 :
        \/ k = 1 /\ IsFetchError(e)
        \/ k = 2 /\ IsOtherError(e)
        \/ k = 3 /\ IsStop(e)
        \/ k = 4 /\ IsEmptyCount(e)
        \/ k = 5 /\ IsExhausted(e)}

\* C4: a call that has returned ended by exactly one of five causes (fetch
\* error, count/handler/NextPageURL error, handler stop, empty page, empty
\* next URL); an error is returned as it is, and nil is returned exactly in
\* the last three.
C4_TerminationCauses ==
    \A c \in Calls :
        Done(c) =>
            /\ Len(log[c]) > 0
            /\ Cardinality(Causes(Last(c))) = 1
            /\ (ret[c] = Nil) = (Causes(Last(c)) \subseteq {3, 4, 5})
            /\ Causes(Last(c)) \subseteq {1, 2} => ret[c] = Last(c).err

C4_Witness ==
    \E c \in Calls : Done(c) /\ Causes(Last(c)) = {3} /\ ret[c] = Nil /\ HasNextPage(c)

URLsOf(events) == [i \in 1..Len(events) |-> events[i].url]

JSONAnswer(doc) == Answer(TRUE, TRUE, TRUE, TRUE, doc)

\* s lists the pages of a linked collection the remote holds, starting at
\* the Pager's initialURL: each page but the last links to the one after
\* it, the last has no links.next, every page counts non-zero and the
\* handler accepts it.
IsLinkedCollection(s) ==
    /\ s[1] = pager.initialURL
    /\ \A i \in 1..Len(s) :
        /\ remote[s[i]] = JSONAnswer(IF i < Len(s) THEN WithNext(JString(s[i + 1]))
                                     ELSE WithLinks(JObject(NoFields)))
        /\ counted[s[i]].err = Nil
        /\ counted[s[i]].n # 0
        /\ handled[s[i]] = [ok |-> TRUE, err |-> Nil]

Collections == UNION {[1..n -> LinkTargets] : n \in 1..MaxFetches}

\* C5: over a linked collection of N such pages, a call that has returned
\* fetched exactly the N pages in order, handed exactly those N pages to the
\* handler in order, and returned nil.
C5_LinkedCollectionTraversed ==
    \A c \in Calls : \A s \in Collections :
        Done(c) /\ IsLinkedCollection(s) =>
            /\ ret[c] = Nil
            /\ URLsOf(Ops(c, "fetch")) = s
            /\ URLsOf(Ops(c, "handler")) = s

C5_Witness ==
    \E c \in Calls : \E s \in Collections :
        Done(c) /\ IsLinkedCollection(s) /\ Len(s) = 3

\* C6: when the k-th fetch of a call fails, the call has returned that
\* error and the handler has been invoked exactly k-1 times, on the pages
\* of the k-1 fetches before it, in order.
C6_FetchFailure ==
    \A c \in Calls :
        Len(log[c]) > 0 /\ IsFetchError(Last(c)) =>
            /\ Done(c)
            /\ ret[c] = Last(c).err
            /\ Len(Ops(c, "handler")) = Fetches(c) - 1
            /\ URLsOf(Ops(c, "handler")) = SubSeq(URLsOf(Ops(c, "fetch")), 1, Fetches(c) - 1)

C6_Witness ==
    \E c \in Calls :
        /\ Len(log[c]) > 0
        /\ IsFetchError(Last(c))
        /\ Fetches(c) = 2
        /\ Len(Ops(c, "handler")) = 1

\* C7: SinglePage.NextPageURL always returns ("", nil), and a call on a
\* Pager built by NewSinglePager invokes the fetch function at most once
\* and the handler at most once.
C7_SinglePageOnce ==
    pager.kind = "single" =>
        \A c \in Calls :
            /\ Fetches(c) <= 1
            /\ Len(Ops(c, "handler")) <= 1
            /\ \A i \in 1..Len(log[c]) :
                log[c][i].op = "next" =>
                    log[c][i].next = EmptyURL /\ log[c][i].err = Nil

C7_Witness ==
    \E c \in Calls :
        /\ pager.kind = "single"
        /\ Done(c)
        /\ Len(Ops(c, "handler")) = 1
        /\ Last(c).op = "next"

\* C8: a second call of EachPage on the same Pager, made after the first has
\* returned and against a remote that answers the same way, makes the same
\* collaborator invocations (the same first fetch included) with the same
\* results and returns the same value as the first.
C8_PagerReusable ==
    \A c, d \in Calls :
        Done(c) /\ Done(d) => log[c] = log[d] /\ ret[c] = ret[d]

\* What C8 says, of the Pagers that NewSinglePager did not build.
ReusableUnlessSingle == pager.kind # "single" => C8_PagerReusable

FetchesDone ==
    {x \in Calls \X (1..(4 * MaxFetches)) :
        /\ x[2] <= Len(log[x[1]])
        /\ log[x[1]][x[2]].op = "fetch"}

Requests == {x \in FetchesDone : log[x[1]][x[2]].did}

\* C9: with the calls following one another, the fetch function of a
\* single-page Pager performs at most one real request, on its first
\* invocation; every other invocation performs none and returns
\* ErrPageNotAvailable, whatever the one request came to.
C9_SingleFetchIdempotentOnce ==
    pager.kind = "single" =>
        /\ Cardinality(Requests) <= 1
        /\ \A x \in FetchesDone \ Requests :
            /\ log[x[1]][x[2]].err = ErrPageNotAvailable
            /\ Requests # {}
        /\ consumed = (Requests # {} \/ \E c \in Calls : pc[c] = "request")

C9_Witness ==
    \E c, d \in Calls :
        /\ pager.kind = "single"
        /\ Done(c) /\ Done(d)
        /\ log[c] = <<FetchEvent(EmptyURL, TRUE, ErrRequest)>>
        /\ log[d] = <<FetchEvent(EmptyURL, FALSE, ErrPageNotAvailable)>>

\* EachPage run by itself from url against the answers known so far, for at
\* most fuel fetches: the invocations it makes and what it returns,
\* "unfinished" when it needs an answer nobody has seen yet.
Run(events, result) == [log |-> events, ret |-> result]

After(event, run) == Run(<<event>> \o run.log, run.ret)

Unfinished == Run(<<>>, "unfinished")

AloneFetch(url) ==
    IF pager.kind = "custom"
    THEN [did |-> remote[url].ok, err |-> remote[url].err,
          page |-> PageOf("custom", [URL |-> url, Body |-> JNull])]
    ELSE LET r == RequestAndRemember(remote[url], url)
         IN  [did |-> TRUE, err |-> r.err, page |-> PageOf(pager.kind, r.snap)]

AloneNextKnown(page) ==
    CASE page.kind = "marker" -> page.URL \in DOMAIN marked
      [] page.kind = "custom" -> page.URL \in DOMAIN nexts
      [] OTHER -> TRUE

AloneNextPageURL(page) ==
    CASE page.kind = "marker" -> MarkerNextPageURL(page, marked[page.URL])
      [] page.kind = "custom" -> nexts[page.URL]
      [] page.kind = "linked" -> LinkedNextPageURL(page)
      [] OTHER -> SingleNextPageURL(page)

RECURSIVE Alone(_, _)
AloneNext(page, fuel) ==
    IF ~AloneNextKnown(page) THEN Unfinished
    ELSE LET r == AloneNextPageURL(page)
         IN  After(NextEvent(page, r),
                   IF r.err # Nil THEN Run(<<>>, r.err)
                   ELSE IF r.url = EmptyURL THEN Run(<<>>, Nil)
                   ELSE Alone(r.url, fuel - 1))

AloneHandler(page, fuel) ==
    IF page.URL \notin DOMAIN handled THEN Unfinished
    ELSE LET r == handled[page.URL]
         IN  After(HandlerEvent(page, r),
                   IF r.err # Nil THEN Run(<<>>, r.err)
                   ELSE IF ~r.ok THEN Run(<<>>, Nil)
                   ELSE AloneNext(page, fuel))

AloneCount(page, fuel) ==
    IF page.URL \notin DOMAIN counted THEN Unfinished
    ELSE LET r == counted[page.URL]
         IN  After(CountEvent(page, r),
                   IF r.err # Nil THEN Run(<<>>, r.err)
                   ELSE IF r.n = 0 THEN Run(<<>>, Nil)
                   ELSE AloneHandler(page, fuel))

Alone(url, fuel) ==
    IF fuel = 0 \/ url \notin DOMAIN remote THEN Unfinished
    ELSE LET f == AloneFetch(url)
         IN  After(FetchEvent(url, f.did, f.err),
                   IF f.err # Nil THEN Run(<<>>, f.err)
                   ELSE AloneCount(f.page, fuel))

\* C10: two calls of EachPage interleaved on one Pager built by NewPager,
\* NewLinkedPager or NewMarkerPager: at every moment what a call has done is
\* the beginning of what it does when run by itself, and once it has
\* returned, its invocations (fetched URLs, handler invocations) and its
\* return value are those of the run by itself.
C10_ConcurrentCallsIndependent ==
    pager.kind \in {"custom", "linked", "marker"} =>
        \A c \in Calls :
            LET alone == Alone(pager.initialURL, MaxFetches)
            IN  /\ IsPrefix(log[c], alone.log)
                /\ Done(c) => log[c] = alone.log /\ ret[c] = alone.ret

C10_Witness ==
    \E c, d \in Calls :
        /\ pager.kind = "linked"
        /\ Done(c)
        /\ Fetches(c) = 3
        /\ pc[d] = "handler"
        /\ Fetches(d) = 2

Requested(c) == {x \in Requests : x[1] = c}

\* C11: on a Pager built by NewSinglePager shared by two goroutines, the
\* flag is read in one step and written in a later one: it is true exactly
\* once some call has executed the write, so a call that has read it false
\* still stands before its write while the flag is false, another call may
\* then read it false too, and every call that read it false goes on to the
\* real request.  (The witness is the interleaving in which both calls
\* perform the real request.)
C11_ConsumedRace ==
    pager.kind = "single" =>
        /\ consumed = \E c \in Calls : pc[c] = "request" \/ Requested(c) # {}
        /\ \A c \in Calls : Cardinality(Requested(c)) <= 1
        /\ \A c, d \in Calls :
            pc[c] = "consume" /\ pc[d] = "fetch" /\ ~consumed =>
                ENABLED (SingleFetch(d) /\ pc'[d] = "consume")
        /\ \A c \in Calls : pc[c] = "request" => ENABLED SingleRequest(c)

C11_Witness ==
    /\ pager.kind = "single"
    /\ Cardinality(Requests) = 2
    /\ \A c \in Calls : Done(c) /\ ret[c] = Nil /\ Len(Ops(c, "handler")) = 1

\* The values a raw query gives key k, in the order they stand in it.
Given(query, k) ==
    LET has(pair) == pair[1] = k
        pairs == SelectSeq(query, has)
    IN  [i \in 1..Len(pairs) |-> pairs[i][2]]

Keys(query) == {query[i][1] : i \in 1..Len(query)}

\* C12: when lastMark returns (m, nil), MarkerPage.NextPageURL returns the
\* page's request URL with the same scheme, host and path and a query in
\* which marker stands exactly once, with value m, and every other
\* parameter keeps its values; ?limit=10 with m = item-42 gives
\* ?limit=10&marker=item-42.
C12_MarkerUpserted ==
    \A c \in Calls : \A i \in 1..Len(log[c]) :
        LET e == log[c][i]
        IN  e.op = "next" /\ e.err = Nil =>
                /\ e.next.path = e.url.path
                /\ Given(e.next.query, "marker") = <<marked[e.url].mark>>
                /\ Keys(e.next.query) = Keys(e.url.query) \cup {"marker"}
                /\ \A k \in Keys(e.url.query) \ {"marker"} :
                    Given(e.next.query, k) = Given(e.url.query, k)
                /\ (e.url.query = << <<"limit", "10">> >> /\ marked[e.url].mark = "item-42"
                        => e.next.query = << <<"limit", "10">>, <<"marker", "item-42">> >>)

C12_Witness ==
    \E c \in Calls : \E i \in 1..Len(log[c]) :
        /\ log[c][i].op = "next"
        /\ log[c][i].url.query = << <<"zone", "a">>, <<"marker", "old">> >>
        /\ log[c][i].next.query = << <<"marker", "item-42">>, <<"zone", "a">> >>

\* The body LinkedPage.NextPageURL decoded for a logged invocation: the
\* document of the response when it was JSON, raw bytes otherwise.
BodyAt(e) == IF remote[e.url].json THEN remote[e.url].doc ELSE JBytes

IsNextOfLinked(c, i) == pager.kind = "linked" /\ log[c][i].op = "next"

HasLinksObject(body) ==
    /\ body.t = "object"
    /\ "links" \in DOMAIN body.fields
    /\ body.fields["links"].t = "object"

NextField(body) == body.fields["links"].fields

\* After invocation i the call goes on to fetch s.
GoesOnTo(c, i, s) ==
    /\ i < Len(log[c]) => log[c][i + 1].op = "fetch" /\ log[c][i + 1].url = s
    /\ i = Len(log[c]) => pc[c] = "fetch" /\ currentURL[c] = s

\* Invocation i is the call's last and the call has returned nil.
EndsWithNil(c, i) == i = Len(log[c]) /\ Done(c) /\ ret[c] = Nil

\* C13 as stated: on a body with a links object, a string links.next is
\* returned as it is and is the next URL fetched; an absent or null
\* links.next gives ("", nil) and ends the traversal with nil.
C13_AsStated ==
    \A c \in Calls : \A i \in 1..Len(log[c]) :
        IsNextOfLinked(c, i) /\ HasLinksObject(BodyAt(log[c][i])) =>
            LET e == log[c][i]
                f == NextField(BodyAt(e))
            IN  /\ ("next" \in DOMAIN f /\ f["next"].t = "string") =>
                    e.next = f["next"].str /\ e.err = Nil /\ GoesOnTo(c, i, e.next)
                /\ ("next" \notin DOMAIN f \/ f["next"].t = "null") =>
                    e.next = EmptyURL /\ e.err = Nil /\ EndsWithNil(c, i)

\* C13, amended: on a body with a links object, a string links.next is
\* returned as it is; when it is not empty it is the next URL fetched, and
\* when it is the empty string the traversal ends with nil; an absent or
\* null links.next gives ("", nil) and ends the traversal with nil.
C13_LinkedNext ==
    \A c \in Calls : \A i \in 1..Len(log[c]) :
        IsNextOfLinked(c, i) /\ HasLinksObject(BodyAt(log[c][i])) =>
            LET e == log[c][i]
                f == NextField(BodyAt(e))
            IN  /\ ("next" \in DOMAIN f /\ f["next"].t = "string") =>
                    /\ e.next = f["next"].str
                    /\ e.err = Nil
                    /\ e.next # EmptyURL => GoesOnTo(c, i, e.next)
                    /\ e.next = EmptyURL => EndsWithNil(c, i)
                /\ ("next" \notin DOMAIN f \/ f["next"].t = "null") =>
                    e.next = EmptyURL /\ e.err = Nil /\ EndsWithNil(c, i)

C13_Witness ==
    \E c \in Calls :
        /\ pager.kind = "linked"
        /\ Done(c)
        /\ Len(log[c]) = 8
        /\ BodyAt(log[c][4]) = WithNext(JString(URLOf("https://x/2")))
        /\ log[c][5] = FetchEvent(URLOf("https://x/2"), TRUE, Nil)
        /\ BodyAt(log[c][8]) = WithNext(JNull)
        /\ ret[c] = Nil

\* The body is not of the shape {links: {next: string}}: no object, no
\* links in it, or a links.next that is neither a string nor null.
MissesLinks(body) == body.t = "object" /\ "links" \notin DOMAIN body.fields

WrongKind(body) ==
    \/ body.t \notin {"object", "null"}
    \/ /\ body.t = "object"
       /\ "links" \in DOMAIN body.fields
       /\ \/ body.fields["links"].t \notin {"object", "null"}
          \/ /\ body.fields["links"].t = "object"
             /\ "next" \in DOMAIN NextField(body)
             /\ NextField(body)["next"].t \notin {"string", "null"}

FailsWithDecodeError(c, i) ==
    /\ log[c][i].err = ErrDecode
    /\ i = Len(log[c])
    /\ Done(c)
    /\ ret[c] = ErrDecode

AllContinue(c) == \A i \in 1..Len(log[c]) : Causes(log[c][i]) = {}

Revisits(c) ==
    \E i, j \in 1..Len(log[c]) :
        /\ i < j
        /\ log[c][i].op = "fetch"
        /\ log[c][j].op = "fetch"
        /\ log[c][i].url = log[c][j].url

\* C15: as long as no fetch fails, every count is non-zero, the handler
\* says (true, nil) and NextPageURL gives a non-empty URL without error,
\* also a URL fetched before, EachPage has not returned, has fetched one
\* page for each iteration begun, and its next step is enabled; nothing
\* but the bound of the exploration stops it.
C15_NoIterationBound ==
    \A c \in Calls :
        pc[c] # "idle" /\ AllContinue(c) =>
            /\ ~Done(c)
            /\ Fetches(c) = (Len(log[c]) + 3) \div 4
            /\ (pc[c] # "fetch" \/ Fetches(c) < MaxFetches) => ENABLED Step(c)

C15_Witness ==
    \E c \in Calls :
        /\ AllContinue(c)
        /\ Fetches(c) = MaxFetches
        /\ pc[c] = "fetch"
        /\ Revisits(c)
        /\ currentURL[c] = pager.initialURL

LoopOrder == <<"fetch", "count", "handler", "next">>

\* The URL of the page a logged fetch produced: the URL fetched, or the one
\* URL of a single-page Pager, whose fetch function ignores its argument.
FetchedPageURL(e) == IF pager.kind = "single" THEN pager.onlyURL ELSE e.url

\* C16: the invocations of a call follow the order fetchNextPage,
\* countPage, handler, NextPageURL, one of each per iteration at most, the
\* last three on the page the iteration's fetch produced; the first fetch
\* receives initialURL and every later one the URL the previous
\* NextPageURL returned.
C16_OrderAndThreading ==
    \A c \in Calls : \A i \in 1..Len(log[c]) :
        LET e == log[c][i]
            k == (i - 1) % 4
        IN  /\ e.op = LoopOrder[k + 1]
            /\ i = 1 => e.url = pager.initialURL
            /\ (k = 0 /\ i > 1) => e.url = log[c][i - 1].next /\ log[c][i - 1].err = Nil
            /\ k > 0 => e.url = FetchedPageURL(log[c][i - k]) /\ log[c][i - k].err = Nil

C16_Witness ==
    \E c \in Calls :
        /\ Len(log[c]) = 8
        /\ log[c][5].url = log[c][4].next
        /\ log[c][5].url # pager.initialURL
        /\ log[c][8].url = log[c][5].url

Count(ops, op) == LET is(o) == o = op IN Len(SelectSeq(ops, is))

\* The fetches of a call that obtained a response, in order.
Responses(c) ==
    LET got(e) ==
            /\ e.op = "fetch"
            /\ e.did
            /\ pager.kind # "custom"
            /\ remote[FetchedPageURL(e)].reqOK
    IN  SelectSeq(log[c], got)

ReadPath(answer) ==
    IF ~answer.readOK THEN "read failure"
    ELSE IF ~answer.json THEN "not JSON"
    ELSE IF ~answer.wellFormed THEN "parse failure"
    ELSE "JSON"

PathsTaken(c) ==
    {ReadPath(remote[FetchedPageURL(Responses(c)[k])]) : k \in 1..Len(Responses(c))}

\* C17: RememberHTTPResponse is run once on each response obtained and on
\* each of its paths (JSON read, other content read, read failure, parse
\* failure) closes the body exactly once, with no read after the close.
C17_BodyClosedOnce ==
    \A c \in Calls :
        /\ Len(bodies[c]) = Len(Responses(c))
        /\ \A k \in 1..Len(bodies[c]) :
            LET ops == bodies[c][k]
            IN  /\ Count(ops, "Close") = 1
                /\ \A i, j \in 1..Len(ops) :
                    ops[i] = "Close" /\ i < j => ops[j] # "ReadAll"

C17_Witness ==
    \E c \in Calls :
        /\ Done(c)
        /\ PathsTaken(c) = {"JSON", "not JSON", "parse failure"}
        /\ bodies[c] = [k \in 1..3 |-> <<"ReadAll", "Close">>]

IsNextOfMarker(c, i) == pager.kind = "marker" /\ log[c][i].op = "next"

\* C18: whenever lastMark succeeds MarkerPage.NextPageURL returns a
\* non-empty URL, also for the empty mark, so a call on a Pager of
\* NewMarkerPager never ends by an empty next URL: it ends by a zero count,
\* a handler's false or an error, and one that handled N pages and then
\* found the empty page made N + 1 fetches.
C18_MarkerNeverExhausted ==
    \A c \in Calls :
        /\ \A i \in 1..Len(log[c]) :
            IsNextOfMarker(c, i) /\ log[c][i].err = Nil =>
                /\ log[c][i].next # EmptyURL
                /\ GoesOnTo(c, i, log[c][i].next)
        /\ (pager.kind = "marker" /\ Done(c)) =>
            /\ Causes(Last(c)) \in {{1}, {2}, {3}, {4}}
            /\ IsEmptyCount(Last(c)) => Fetches(c) = Len(Ops(c, "handler")) + 1

C18_Witness ==
    \E c \in Calls :
        /\ pager.kind = "marker"
        /\ pager.initialURL = EmptyURL
        /\ Done(c)
        /\ IsEmptyCount(Last(c))
        /\ Len(Ops(c, "handler")) = 2
        /\ Fetches(c) = 3
        /\ marked[pager.initialURL].mark = ""
        /\ log[c][4].next = [path |-> "", query |-> << <<"marker", "">> >>]

\* The page a call holds is the page its last successful fetch constructed.
AsConstructed(c) ==
    LET good(e) == e.op = "fetch" /\ e.err = Nil
        u == SelectSeq(log[c], good)[Len(SelectSeq(log[c], good))].url
    IN  currentPage[c] = PageOf("marker", RequestAndRemember(remote[u], u).snap)

Invocations(c, op) == Len(Ops(c, op))

\* C20: in every state of a call the numbers of invocations made so far
\* satisfy f >= c >= h >= n >= f - 1 (fetchNextPage, countPage, handler,
\* NextPageURL); the handler is only invoked on a page fetched without
\* error and counted non-zero, and a page after the first is only fetched
\* when the previous page's NextPageURL returned a non-empty URL.
C20_InvocationCounts ==
    \A c \in Calls :
        /\ Invocations(c, "fetch") >= Invocations(c, "count")
        /\ Invocations(c, "count") >= Invocations(c, "handler")
        /\ Invocations(c, "handler") >= Invocations(c, "next")
        /\ Invocations(c, "next") >= Invocations(c, "fetch") - 1
        /\ \A i \in 1..Len(log[c]) :
            /\ log[c][i].op = "handler" =>
                /\ i >= 3
                /\ log[c][i - 2].op = "fetch" /\ log[c][i - 2].err = Nil
                /\ log[c][i - 1].op = "count" /\ log[c][i - 1].err = Nil
                /\ log[c][i - 1].n # 0
                /\ log[c][i - 1].url = log[c][i].url
                /\ FetchedPageURL(log[c][i - 2]) = log[c][i].url
            /\ (log[c][i].op = "fetch" /\ i > 1) =>
                /\ log[c][i - 1].op = "next" /\ log[c][i - 1].err = Nil
                /\ log[c][i - 1].next # EmptyURL

C20_Witness ==
    \E c \in Calls :
        /\ Invocations(c, "fetch") = 3
        /\ Invocations(c, "count") = 3
        /\ Invocations(c, "handler") = 2
        /\ Invocations(c, "next") = 2
        /\ pc[c] = "handler"

====
